---- MODULE Spec2Model ----
(***************************************************************************)
(* A model of src/src/battle_net_api_client.rs, the Battle.net API client  *)
(* of blood-money: the retrying request executor make_blizzard_api_call,   *)
(* the three fetching operations built on it, the rate limiter every       *)
(* attempt passes through, and the pure function process_connected_realms. *)
(*                                                                         *)
(* Text is modelled as a sequence of tokens: a run of whitespace, one      *)
(* complete JSON document, the first or the second part of a document cut  *)
(* in two between two of its fields, or bytes that no JSON text can hold   *)
(* at any of these places.  A response body holds at most one token, and   *)
(* text that can no longer become a JSON document is kept as junk.         *)
(* The retry counter is an i32 whose width is scaled down; the counts the  *)
(* model keeps of what a call has done so far saturate just above it.      *)
(***************************************************************************)
EXTENDS Integers, Sequences, FiniteSets

VARIABLES
    realm_infos,  \* process_connected_realms: the argument (Vec<RealmInfo>)
    clustered,    \* process_connected_realms: pending, returned groups, or panicked
    live,         \* the threads that share the client in this run
    tt,           \* the rate limiter: acquisitions recorded per age (in ticks)
    sent_win,     \* history: requests dispatched per age, over the same window
    healthy,      \* environment: from now on every attempt succeeds with a valid payload
    overflow_checks, \* the build: integer overflow panics (TRUE) or wraps (FALSE)
    op,           \* per thread: the public operation in progress
    arg,          \* per thread: its arguments
    pc,           \* per thread: position in the operation
    calls,        \* per thread: URLs make_blizzard_api_call was invoked with, in order
    shape,        \* per thread: the type T the current executor call decodes into
    s,            \* per thread: the executor's local `s` (line 84)
    retries,      \* per thread: the executor's local `retries` (line 85)
    ret,          \* per thread: the value the executor returned last
    fetched,      \* per thread: the AuctionDataPointer popped from the status reply
    outcome,      \* per thread: what the caller of the public operation saw
    acq_urls,     \* history, per thread: URLs a permit was acquired for in this operation
    sent_urls,    \* history, per thread: URLs a request was dispatched to in this operation
    permits,      \* history, per thread: permits acquired by the current executor call
    dispatched,   \* history, per thread: requests dispatched by the current executor call
    nfail,        \* history, per thread: failures logged by the current executor call
    last_log      \* history, per thread: the retry count printed with the last failure

cluster_vars == <<realm_infos, clustered>>
limiter_vars == <<tt, sent_win>>
thread_vars  == <<op, arg, pc, calls, shape, s, retries, ret, fetched, outcome>>
history_vars == <<acq_urls, sent_urls, permits, dispatched, nfail, last_log>>
client_vars  == <<live, limiter_vars, healthy, overflow_checks, thread_vars, history_vars>>
vars == <<cluster_vars, client_vars>>

(***************************************************************************)
(* Bounds of the model.                                                    *)
(***************************************************************************)
MaxRealms   == 3   \* realms in one argument of process_connected_realms
MaxRetries  == 2   \* the largest value of `retries`: i32::MAX, scaled down
MaxTime     == 2   \* lastModified and cutoff range over 0..MaxTime
WindowTicks == 2   \* clock ticks in one limiter window
Capacity    == 1   \* limiter permits per window; line 74 asks for 100 per second,
                   \* which the model scales down to keep the window observable

Min(a, b) == IF a < b THEN a ELSE b

\* The counts of acquisitions, dispatches and failures of a call that the
\* model keeps beside the program's state: exact up to MaxCount, which
\* stands for every larger count.
MaxCount == MaxRetries + 1
Bump(n)  == Min(n + 1, MaxCount)

\* `retries += 1` on an i32 (line 89): the sum overflows at i32::MAX, and
\* a build without overflow checks wraps it to i32::MIN.
Overflows(n)   == n = MaxRetries
WrappingAdd(n) == IF Overflows(n) THEN 0 - (MaxRetries + 1) ELSE n + 1

\* The threads that can share one client.
Threads == {1, 2}

(***************************************************************************)
(* process_connected_realms (lines 159-169).                               *)
(***************************************************************************)
Slugs == {"a", "b", "c"}

\* String's Ord on the slugs of the model.
SlugRank(x) == CASE x = "a" -> 1 [] x = "b" -> 2 [] x = "c" -> 3

RECURSIVE SeqsUpTo(_, _)
SeqsUpTo(S, n) ==
    IF n = 0 THEN {<<>>}
    ELSE LET shorter == SeqsUpTo(S, n - 1)
         IN  shorter \cup {Append(q, x) : q \in {r \in shorter : Len(r) = n - 1}, x \in S}

\* The connected_realms sequences of the model: none, one or two slugs.
ConnectedRealmsValues ==
    {<<>>} \cup {<<x>> : x \in Slugs} \cup {<<x, y>> : x \in Slugs, y \in Slugs}

\* RealmInfo (lines 21-25); name and slug are never read by this file.
RealmInfo == [connected_realms : ConnectedRealmsValues]

\* |a, b| a.iter().next().unwrap().cmp(b.iter().next().unwrap())  (line 166)
FirstLessEq(x, y) == SlugRank(x[1]) <= SlugRank(y[1])

\* The place of x in an already sorted sequence: after every element that
\* does not compare greater, which is what makes the sort stable.
RECURSIVE InsertStable(_, _)
InsertStable(x, sorted) ==
    IF sorted = <<>> THEN <<x>>
    ELSE IF FirstLessEq(Head(sorted), x)
         THEN <<Head(sorted)>> \o InsertStable(x, Tail(sorted))
         ELSE <<x>> \o sorted

RECURSIVE SortByFirstFrom(_, _)
SortByFirstFrom(sorted, rest) ==
    IF rest = <<>> THEN sorted
    ELSE SortByFirstFrom(InsertStable(Head(rest), sorted), Tail(rest))

\* Mutant of sort_by: the sort left out.
sort_by_missing(sets) == sets

\* realm_sets.sort_by(..): slice::sort_by is a stable sort (line 166)
sort_by(sets) == SortByFirstFrom(<<>>, sets)

Range(q) == {q[i] : i \in 1..Len(q)}

\* Mutant of dedup: two groups compared as sets of slugs.
RECURSIVE dedup_as_sets(_)
dedup_as_sets(sets) ==
    IF Len(sets) <= 1 THEN sets
    ELSE IF Range(sets[1]) = Range(sets[2])
         THEN dedup_as_sets(<<sets[1]>> \o Tail(Tail(sets)))
         ELSE <<sets[1]>> \o dedup_as_sets(Tail(sets))

\* realm_sets.dedup(): drops an element equal to the one before it (line 167)
RECURSIVE dedup(_)
dedup(sets) ==
    IF Len(sets) <= 1 THEN sets
    ELSE IF sets[1] = sets[2]
         THEN dedup(Tail(sets))
         ELSE <<sets[1]>> \o dedup(Tail(sets))

\* Mutant of collect: every candidate group put into canonical order, its
\* slugs sorted.
collect_canonical(infos) ==
    [i \in 1..Len(infos) |->
        LET g == infos[i].connected_realms
        IN  IF Len(g) = 2 /\ SlugRank(g[2]) < SlugRank(g[1]) THEN <<g[2], g[1]>> ELSE g]

\* realm_infos.into_iter().map(|r| r.connected_realms.clone()).collect()
collect(infos) == [i \in 1..Len(infos) |-> infos[i].connected_realms]

\* The comparator unwraps the first slug of both sides: it panics on an
\* empty connected_realms as soon as the sort compares anything.
SortPanics(sets) == Len(sets) >= 2 /\ \E i \in 1..Len(sets) : sets[i] = <<>>

process_connected_realms(infos) ==
    LET realm_sets == collect(infos)
    IN  IF SortPanics(realm_sets)
        THEN [state |-> "panicked", groups |-> <<>>]
        ELSE [state |-> "returned", groups |-> dedup(sort_by(realm_sets))]

(***************************************************************************)
(* Claims about process_connected_realms, checked under ClusterSpec (its   *)
(* definition is with the other specifications below).                     *)
(***************************************************************************)
Candidates == collect(realm_infos)
Groups     == clustered.groups
Returned   == clustered.state = "returned"
AllNonEmpty == \A i \in 1..Len(Candidates) : Candidates[i] # <<>>
Occurrences(g) == Cardinality({j \in 1..Len(Groups) : Groups[j] = g})

\* C7: for every input whose connected_realms are all non-empty, no two
\* groups of the output are the same sequence, also when distinct candidate
\* groups share their first slug.
C7_NoTwoIdenticalGroups ==
    (Returned /\ AllNonEmpty) =>
        \A i \in 1..Len(Groups) : \A j \in 1..Len(Groups) :
            i # j => Groups[i] # Groups[j]

\* C8: every input realm's connected_realms sequence equals exactly one
\* group of the output.
C8_EachInputInExactlyOneGroup ==
    Returned => \A i \in 1..Len(Candidates) : Occurrences(Candidates[i]) = 1

\* The hypothesis of C9: every member of a connected group reports the same
\* sequence, and distinct connected groups share no slug.
ConsistentGroups ==
    /\ AllNonEmpty
    /\ \A i \in 1..Len(Candidates) : \A j \in 1..Len(Candidates) :
          \/ Candidates[i] = Candidates[j]
          \/ Range(Candidates[i]) \cap Range(Candidates[j]) = {}

ConnectedGroups == {Range(Candidates[i]) : i \in 1..Len(Candidates)}

\* C9: when every member of each connected group reports the identical
\* sequence and distinct groups are disjoint, the function returns exactly
\* one group per connected group, whatever the order of the input.
C9_OneGroupPerConnectedGroup ==
    (clustered.state # "pending" /\ ConsistentGroups) =>
        /\ Returned
        /\ Len(Groups) = Cardinality(ConnectedGroups)
        /\ \A i \in 1..Len(Candidates) : Occurrences(Candidates[i]) = 1

\* A consistent input in which the two reports of one group are separated
\* by another group, clustered into two groups.
C9_Witness ==
    /\ Returned /\ ConsistentGroups
    /\ Len(Candidates) = 3
    /\ Candidates[1] = Candidates[3] /\ Candidates[1] # Candidates[2]
    /\ SlugRank(Candidates[2][1]) < SlugRank(Candidates[1][1])
    /\ Len(Groups) = 2

\* C10: two realms reporting the same set of slugs in different orders are
\* not merged: both sequences are groups of the output, which therefore has
\* more groups than there are connected groups.
C10_ReorderedGroupsNotMerged ==
    Returned =>
        \A i \in 1..Len(Candidates) : \A j \in 1..Len(Candidates) :
            (Range(Candidates[i]) = Range(Candidates[j]) /\ Candidates[i] # Candidates[j]) =>
                /\ Occurrences(Candidates[i]) >= 1
                /\ Occurrences(Candidates[j]) >= 1
                /\ Len(Groups) > Cardinality(ConnectedGroups)

\* [a,b] and [b,a] reported by the two members of one group: two groups out.
C10_Witness ==
    /\ Returned
    /\ Candidates = << <<"a", "b">>, <<"b", "a">> >>
    /\ Groups = << <<"a", "b">>, <<"b", "a">> >>

(***************************************************************************)
(* The data on the wire (lines 19-61) and the URLs of the endpoints.       *)
(***************************************************************************)
ApiKey == "key"   \* BattleNetApiClient::token

RealmStatusUrl    == [endpoint |-> "realm_status", apikey |-> ApiKey]
ItemUrl(id)       == [endpoint |-> "item", id |-> id, apikey |-> ApiKey]
AuctionDataUrl(g) == [endpoint |-> "auction_data", slug |-> g, apikey |-> ApiKey]
\* The URLs an AuctionDataPointer can carry: the server's listing files.
FileUrls          == {[endpoint |-> "file", name |-> n] : n \in {"f1", "f2"}}

ItemIds    == {1}
RealmSlugs == {"a", "b"}

Ws   == [kind |-> "ws"]     \* white space only
Junk == [kind |-> "junk"]   \* bytes no JSON text holds where a body starts or ends

\* AuctionListing (lines 57-61); the first is the listing of the spec's scenario.
Listing1 == [item |-> 1, buyout |-> 500, quantity |-> 10]
Listing2 == [item |-> 2, buyout |-> 0, quantity |-> 1]

\* What each listing file holds on the server.
AuctionsAt(u) ==
    IF u.name = "f1" THEN {<<Listing1>>, <<Listing1, Listing2>>}
    ELSE {<<>>, <<Listing2, Listing1>>}

\* AuctionDataPointer (lines 45-48): the first file at any time, the second
\* at the latest one.  The `files` of an AuctionDataReply: none, one, or two
\* pointers that differ in URL and time.
Pointers ==
    {[url |-> [endpoint |-> "file", name |-> "f1"], lastModified |-> T] : T \in 0..MaxTime}
    \cup {[url |-> [endpoint |-> "file", name |-> "f2"], lastModified |-> MaxTime]}
FilesValues ==
    {<<>>} \cup {<<p>> : p \in Pointers}
    \cup {<<p, q>> : p \in {x \in Pointers : x.lastModified = 0},
                     q \in {x \in Pointers : x.url.name = "f2"}}
    \cup {<<q, p>> : p \in {x \in Pointers : x.lastModified = 0},
                     q \in {x \in Pointers : x.url.name = "f2"}}

RealmList == << [connected_realms |-> <<"a", "b">>], [connected_realms |-> <<"a", "b">>] >>

\* What the "owner" strings of a listings document hold, and how they are
\* written: text without a quote character, valid ("plain") or not valid for
\* the decoder ("garbled"); text with a quote character, escaped (a valid
\* string) or raw; garbled text written with a space after the colon.  A
\* document without auctions has no owner.
Owners == {"plain", "garbled", "escaped_quote", "raw_quote", "spaced_garbled"}

\* JSON documents by endpoint.  A realm status document is a map from keys
\* to realm lists.
RealmStatusDocs ==
    {[kind |-> "doc", shape |-> "realm_status", map |-> m] :
        m \in {[realms |-> RealmList], [other |-> RealmList], <<>>}}
ItemDocs(id) ==
    {[kind |-> "doc", shape |-> "item", item |-> [id |-> id, name |-> "n", icon |-> "i"]]}
AuctionDataDocs ==
    {[kind |-> "doc", shape |-> "auction_data", files |-> f] : f \in FilesValues}
ListingsDocs(u) ==
    {[kind |-> "doc", shape |-> "auction_listings", auctions |-> a, owner |-> o] :
        a \in AuctionsAt(u) \cap {<<Listing1>>}, o \in Owners}
    \cup {[kind |-> "doc", shape |-> "auction_listings", auctions |-> a, owner |-> "plain"] :
        a \in AuctionsAt(u) \ {<<>>, <<Listing1>>}}
    \cup {[kind |-> "doc", shape |-> "auction_listings", auctions |-> a, owner |-> "none"] :
        a \in AuctionsAt(u) \cap {<<>>}}

Docs(u) ==
    CASE u.endpoint = "realm_status" -> RealmStatusDocs
      [] u.endpoint = "item"         -> ItemDocs(u.id)
      [] u.endpoint = "auction_data" -> AuctionDataDocs
      [] u.endpoint = "file"         -> ListingsDocs(u)

\* The document of each URL that also arrives cut in two, between its
\* first field and the rest (for listings: before "auctions", so that every
\* owner is in the second part).
CutDoc(u) ==
    CASE u.endpoint = "realm_status" ->
            [kind |-> "doc", shape |-> "realm_status", map |-> [realms |-> RealmList]]
      [] u.endpoint = "item" ->
            [kind |-> "doc", shape |-> "item", item |-> [id |-> u.id, name |-> "n", icon |-> "i"]]
      [] u.endpoint = "auction_data" ->
            [kind |-> "doc", shape |-> "auction_data",
             files |-> << [url |-> [endpoint |-> "file", name |-> "f2"],
                           lastModified |-> MaxTime] >>]
      [] u.endpoint = "file" ->
            [kind |-> "doc", shape |-> "auction_listings",
             auctions |-> IF u.name = "f1" THEN <<Listing1>> ELSE <<Listing2, Listing1>>,
             owner |-> "plain"]

FirstPart(d) == [kind |-> "first", of |-> d]   \* d up to the comma after its first field
RestPart(d)  == [kind |-> "rest", of |-> d]    \* what follows that comma
Parts(u) == {FirstPart(CutDoc(u)), RestPart(CutDoc(u))}

\* The bodies the server can send for a URL: at most one token.  A body of
\* white space only is tried on the realm status endpoint.
Bodies(u) ==
    {<<>>, <<Junk>>} \cup {<<d>> : d \in Docs(u)} \cup {<<k>> : k \in Parts(u)}
    \cup (IF u.endpoint = "realm_status" THEN {<<Ws>>} ELSE {})

\* What one attempt gets back: a transport error (line 94), a status other
\* than Ok (line 101), a read error after `read` was appended (line 107),
\* or a body read to its end.
Responses(u) ==
    {[kind |-> "transport_error", read |-> <<>>], [kind |-> "bad_status", read |-> <<>>]}
    \cup {[kind |-> k, read |-> b] : k \in {"read_error", "ok"}, b \in Bodies(u)}

(***************************************************************************)
(* make_blizzard_api_call (lines 83-131): the pure steps.                  *)
(***************************************************************************)
\* Regex "owner":"([^"]+?)" replaced by "owner":"_" (lines 122-123).  The
\* pattern needs the colon followed at once by the quote, and its group
\* ends before the first quote character: an owner free of quotes becomes
\* _, an owner holding a quote is replaced up to that quote only, which
\* leaves its remainder behind the new closing quote, and an owner written
\* with a space after the colon is not matched.
SanitizeOwner(o) ==
    CASE o \in {"plain", "garbled"}           -> "_"
      [] o \in {"escaped_quote", "raw_quote"} -> "_ then the rest of the owner"
      [] OTHER                                -> o

SanitizeToken(k) ==
    IF k.kind = "doc" /\ k.shape = "auction_listings"
    THEN [k EXCEPT !.owner = SanitizeOwner(@)]
    ELSE k
Sanitize(q) == [i \in 1..Len(q) |-> SanitizeToken(q[i])]

IsWs(k) == k.kind = "ws"
NotWs(k) == k.kind # "ws"

\* The value a document decodes to.
ValueOf(d) ==
    CASE d.shape = "realm_status"     -> [map |-> d.map]
      [] d.shape = "item"             -> d.item
      [] d.shape = "auction_data"     -> [files |-> d.files]
      [] d.shape = "auction_listings" -> [auctions |-> d.auctions]

\* The decoder takes a document all of whose strings are valid JSON strings.
Accepted(d) ==
    IF d.shape = "auction_listings"
    THEN d.owner \in {"none", "plain", "escaped_quote", "_"}
    ELSE TRUE

\* A successful transport, a success status, a readable body, a valid payload.
GoodResponses(u) == {[kind |-> "ok", read |-> <<d>>] : d \in {x \in Docs(u) : Accepted(x)}}

\* json::decode(&s) (line 124): white space around exactly one document of
\* the expected shape that the decoder takes.
Decode(T, q) ==
    LET body == SelectSeq(q, NotWs)
    IN  IF Len(body) = 1 /\ body[1].kind = "doc" /\ body[1].shape = T /\ Accepted(body[1])
        THEN [ok |-> TRUE, val |-> ValueOf(body[1])]
        ELSE [ok |-> FALSE]

\* The first part of a document followed by its second part is the
\* document; white space behind a first part is white space between two
\* fields, which changes nothing.
RECURSIVE Join(_)
Join(q) ==
    IF Len(q) <= 1 THEN q
    ELSE IF q[1].kind = "first" /\ q[2].kind = "rest" /\ q[2].of = q[1].of
         THEN Join(<<q[1].of>> \o Tail(Tail(q)))
         ELSE IF q[1].kind = "first" /\ IsWs(q[2])
              THEN Join(<<q[1]>> \o Tail(Tail(q)))
              ELSE <<q[1]>> \o Join(Tail(q))

\* No continuation of q decodes: q holds junk, a second part without its
\* first part, or more than one document or first part.
Poisoned(q) ==
    \/ \E i \in 1..Len(q) : q[i].kind \in {"junk", "rest"}
    \/ Len(SelectSeq(q, NotWs)) >= 2

\* Two runs of white space side by side are one run.
RECURSIVE Coalesce(_)
Coalesce(q) ==
    IF Len(q) <= 1 THEN q
    ELSE IF IsWs(q[1]) /\ IsWs(q[2])
         THEN Coalesce(Tail(q))
         ELSE <<q[1]>> \o Coalesce(Tail(q))

\* A text as the model keeps it: parts that belong together joined, and
\* text that is no JSON document whatever follows it kept as junk.
Text(q) ==
    LET joined == Coalesce(Join(q))
    IN  IF Poisoned(joined) THEN <<Junk>> ELSE joined

\* res.read_to_string(&mut s) (line 105) appends to s.
ReadToString(buf, body) == Text(buf \o body)

(***************************************************************************)
(* The rate limiter, ThreadThrottler::new(100, 1 s) (line 74).             *)
(***************************************************************************)
Ages == 0..(WindowTicks - 1)

RECURSIVE SumUpTo(_, _)
SumUpTo(f, a) == IF a = 0 THEN f[0] ELSE f[a] + SumUpTo(f, a - 1)
InWindow(f) == SumUpTo(f, WindowTicks - 1)

\* One clock tick: every record is one tick older, the oldest leave the window.
Aged(f) == [a \in Ages |-> IF a = 0 THEN 0 ELSE f[a - 1]]
RECURSIVE AgedBy(_, _)
AgedBy(f, n) == IF n = 0 THEN f ELSE AgedBy(Aged(f), n - 1)
Recorded(f) == [f EXCEPT ![0] = @ + 1]

\* acquire returns once fewer than Capacity acquisitions lie in the trailing window.
HasRoom(f) == InWindow(f) < Capacity

Tick ==
    /\ live # {}
    /\ tt' = Aged(tt)
    /\ sent_win' = Aged(sent_win)
    /\ UNCHANGED <<cluster_vars, live, healthy, overflow_checks, thread_vars, history_vars>>

(***************************************************************************)
(* make_blizzard_api_call (lines 83-131), one thread t.  The call is at    *)
(* the top of the loop ("loop"), inside pass_through_or_block ("acquire"), *)
(* about to send ("send"), inside send() waiting for the response          *)
(* ("wait"), or inside read_to_string waiting for the body ("read").       *)
(***************************************************************************)
Url(t) == calls[t][Len(calls[t])]

\* Lines 84-85: a call starts with an empty `s` and retries = 0.
EnterExecutor(t, before, u, T) ==
    /\ calls' = [calls EXCEPT ![t] = Append(before, u)]
    /\ shape' = [shape EXCEPT ![t] = T]
    /\ s' = [s EXCEPT ![t] = <<>>]
    /\ retries' = [retries EXCEPT ![t] = 0]
    /\ pc' = [pc EXCEPT ![t] = "loop"]
    /\ permits' = [permits EXCEPT ![t] = 0]
    /\ dispatched' = [dispatched EXCEPT ![t] = 0]
    /\ nfail' = [nfail EXCEPT ![t] = 0]
    /\ last_log' = [last_log EXCEPT ![t] = 0]

\* Line 89: retries += 1.  At i32::MAX a build with overflow checks panics
\* ('attempt to add with overflow'), and the panic leaves the call and the
\* public operation; a build without them wraps.
IncrementRetries(t) ==
    /\ pc[t] = "loop"
    /\ IF Overflows(retries[t]) /\ overflow_checks
       THEN /\ outcome' = [outcome EXCEPT ![t] =
                              [kind |-> "panic", message |-> "attempt to add with overflow"]]
            /\ pc' = [pc EXCEPT ![t] = "done"]
            /\ s' = [s EXCEPT ![t] = <<>>]
            /\ retries' = [retries EXCEPT ![t] = 0]
            /\ permits' = [permits EXCEPT ![t] = 0]
            /\ dispatched' = [dispatched EXCEPT ![t] = 0]
            /\ nfail' = [nfail EXCEPT ![t] = 0]
            /\ last_log' = [last_log EXCEPT ![t] = 0]
            /\ UNCHANGED <<acq_urls, sent_urls>>
       ELSE /\ retries' = [retries EXCEPT ![t] = WrappingAdd(@)]
            /\ pc' = [pc EXCEPT ![t] = "acquire"]
            /\ UNCHANGED <<outcome, s, history_vars>>
    /\ UNCHANGED <<cluster_vars, live, limiter_vars, healthy, overflow_checks, op, arg,
                   calls, shape, ret, fetched>>

\* Mutant of Acquire: the call goes on without waiting for room.
AcquireUnthrottled(t) ==
    /\ pc[t] = "acquire"
    /\ tt' = Recorded(tt)
    /\ pc' = [pc EXCEPT ![t] = "send"]
    /\ permits' = [permits EXCEPT ![t] = Bump(@)]
    /\ acq_urls' = [acq_urls EXCEPT ![t] = @ \cup {Url(t)}]
    /\ UNCHANGED <<cluster_vars, live, sent_win, healthy, overflow_checks, op, arg, calls,
                   shape, s, retries, ret, fetched, outcome, sent_urls, dispatched,
                   nfail, last_log>>

\* Line 91: self.tt.pass_through_or_block() returns once the limiter has
\* room, and the acquisition is recorded; until then the thread is blocked
\* while the clock and the other threads go on.
Acquire(t) ==
    /\ pc[t] = "acquire"
    /\ HasRoom(tt)
    /\ tt' = Recorded(tt)
    /\ pc' = [pc EXCEPT ![t] = "send"]
    /\ permits' = [permits EXCEPT ![t] = Bump(@)]
    /\ acq_urls' = [acq_urls EXCEPT ![t] = @ \cup {Url(t)}]
    /\ UNCHANGED <<cluster_vars, live, sent_win, healthy, overflow_checks, op, arg, calls,
                   shape, s, retries, ret, fetched, outcome, sent_urls, dispatched,
                   nfail, last_log>>

\* Line 92: self.client.get(url).send() puts the request on the wire.
Send(t) ==
    /\ pc[t] = "send"
    /\ pc' = [pc EXCEPT ![t] = "wait"]
    /\ sent_win' = Recorded(sent_win)
    /\ dispatched' = [dispatched EXCEPT ![t] = Bump(@)]
    /\ sent_urls' = [sent_urls EXCEPT ![t] = @ \cup {Url(t)}]
    /\ UNCHANGED <<cluster_vars, live, tt, healthy, overflow_checks, op, arg, calls, shape,
                   s, retries, ret, fetched, outcome, acq_urls, permits, nfail, last_log>>

\* What the rest of one loop iteration (lines 92-129) does with a response:
\* the new `s`, and either the decoded value or a logged failure.
AttemptResult(T, buf, resp) ==
    IF resp.kind \in {"transport_error", "bad_status"}
    THEN [s |-> buf, returns |-> FALSE, decoded |-> FALSE]
    ELSE LET read == ReadToString(buf, resp.read)
         IN  IF resp.kind = "read_error"
             THEN [s |-> read, returns |-> FALSE, decoded |-> FALSE]
             ELSE LET d == Decode(T, Sanitize(read))
                  IN  IF d.ok
                      THEN [s |-> read, returns |-> TRUE, decoded |-> TRUE, val |-> d.val]
                      ELSE [s |-> read, returns |-> FALSE, decoded |-> TRUE]

\* println!(".. Retry {}.", .., retries) and the next iteration of the loop
\* (lines 95-96, 102-103, 108-109, 127-129).
LogAndRetry(t, buf) ==
    /\ pc' = [pc EXCEPT ![t] = "loop"]
    /\ s' = [s EXCEPT ![t] = buf]
    /\ nfail' = [nfail EXCEPT ![t] = Bump(@)]
    /\ last_log' = [last_log EXCEPT ![t] = retries[t]]
    /\ UNCHANGED <<ret, retries>>

\* Lines 92-104: send() returns an error, or a response whose status is or
\* is not Ok.
Receive(t) ==
    /\ pc[t] = "wait"
    /\ \/ /\ ~healthy
          /\ \E resp \in {r \in Responses(Url(t)) : r.kind \in {"transport_error", "bad_status"}} :
               LogAndRetry(t, AttemptResult(shape[t], s[t], resp).s)
       \/ /\ pc' = [pc EXCEPT ![t] = "read"]
          /\ UNCHANGED <<s, nfail, last_log, ret, retries>>
    /\ UNCHANGED <<cluster_vars, live, limiter_vars, healthy, overflow_checks, op, arg,
                   calls, shape, fetched, outcome, acq_urls, sent_urls, permits, dispatched>>

\* Mutant of ReadBody: after a decode failure the request is sent again at
\* once, without going back to the top of the loop for a permit.
ReadBodyRetryWithoutPermit(t) ==
    /\ pc[t] = "read"
    /\ \E resp \in (IF healthy THEN GoodResponses(Url(t))
                   ELSE {r \in Responses(Url(t)) : r.kind \in {"read_error", "ok"}}) :
         LET r == AttemptResult(shape[t], s[t], resp)
         IN  IF r.returns
             THEN /\ pc' = [pc EXCEPT ![t] = "ret"]
                  /\ ret' = [ret EXCEPT ![t] = r.val]
                  /\ s' = [s EXCEPT ![t] = <<>>]
                  /\ retries' = [retries EXCEPT ![t] = 0]
                  /\ UNCHANGED <<nfail, last_log>>
             ELSE /\ pc' = [pc EXCEPT ![t] = IF r.decoded THEN "send" ELSE "loop"]
                  /\ s' = [s EXCEPT ![t] = r.s]
                  /\ nfail' = [nfail EXCEPT ![t] = Bump(@)]
                  /\ last_log' = [last_log EXCEPT ![t] = retries[t]]
                  /\ UNCHANGED <<ret, retries>>
    /\ UNCHANGED <<cluster_vars, live, limiter_vars, healthy, overflow_checks, op, arg,
                   calls, shape, fetched, outcome, acq_urls, sent_urls, permits, dispatched>>

\* Lines 105-129: the body is read into `s`, sanitized and decoded; the
\* value is returned, or the failure logged and the loop started over.
ReadBody(t) ==
    /\ pc[t] = "read"
    /\ \E resp \in (IF healthy THEN GoodResponses(Url(t))
                   ELSE {r \in Responses(Url(t)) : r.kind \in {"read_error", "ok"}}) :
         LET r == AttemptResult(shape[t], s[t], resp)
         IN  IF r.returns
             THEN \* return obj (line 125): the locals s and retries are gone
                  /\ pc' = [pc EXCEPT ![t] = "ret"]
                  /\ ret' = [ret EXCEPT ![t] = r.val]
                  /\ s' = [s EXCEPT ![t] = <<>>]
                  /\ retries' = [retries EXCEPT ![t] = 0]
                  /\ UNCHANGED <<nfail, last_log>>
             ELSE LogAndRetry(t, r.s)
    /\ UNCHANGED <<cluster_vars, live, limiter_vars, healthy, overflow_checks, op, arg,
                   calls, shape, fetched, outcome, acq_urls, sent_urls, permits, dispatched>>

(***************************************************************************)
(* The public operations (lines 134-155, 171-173).                         *)
(***************************************************************************)
CanCall(t) == pc[t] \in {"idle", "done"}

StartOperation(t, name, a) ==
    /\ op' = [op EXCEPT ![t] = name]
    /\ arg' = [arg EXCEPT ![t] = a]
    /\ outcome' = [outcome EXCEPT ![t] = [kind |-> "none"]]
    /\ ret' = [ret EXCEPT ![t] = [none |-> TRUE]]
    /\ fetched' = [fetched EXCEPT ![t] = [none |-> TRUE]]
    /\ acq_urls' = [acq_urls EXCEPT ![t] = {}]
    /\ sent_urls' = [sent_urls EXCEPT ![t] = {}]
    /\ UNCHANGED <<cluster_vars, live, limiter_vars, healthy, overflow_checks>>

\* The operation ends for its caller; no executor call is running any more.
Finish(t, result) ==
    /\ outcome' = [outcome EXCEPT ![t] = result]
    /\ pc' = [pc EXCEPT ![t] = "done"]
    /\ permits' = [permits EXCEPT ![t] = 0]
    /\ dispatched' = [dispatched EXCEPT ![t] = 0]
    /\ nfail' = [nfail EXCEPT ![t] = 0]
    /\ last_log' = [last_log EXCEPT ![t] = 0]
    /\ UNCHANGED <<cluster_vars, live, limiter_vars, healthy, overflow_checks, op, arg,
                   calls, shape, s, retries, ret, acq_urls, sent_urls>>

\* get_realms, lines 135-136.
CallGetRealms(t) ==
    /\ CanCall(t)
    /\ StartOperation(t, "get_realms", [none |-> TRUE])
    /\ EnterExecutor(t, <<>>, RealmStatusUrl, "realm_status")

\* realm_data.remove("realms").expect("Malformed realm response.") (line 137)
GetRealmsReturn(t) ==
    /\ pc[t] = "ret" /\ op[t] = "get_realms"
    /\ Finish(t, IF "realms" \in DOMAIN ret[t].map
                 THEN [kind |-> "value", value |-> ret[t].map["realms"]]
                 ELSE [kind |-> "panic", message |-> "Malformed realm response."])
    /\ UNCHANGED fetched

\* get_item_info, line 172.
CallGetItemInfo(t) ==
    /\ CanCall(t)
    /\ \E id \in ItemIds :
         /\ StartOperation(t, "get_item_info", [id |-> id])
         /\ EnterExecutor(t, <<>>, ItemUrl(id), "item")

GetItemInfoReturn(t) ==
    /\ pc[t] = "ret" /\ op[t] = "get_item_info"
    /\ Finish(t, [kind |-> "value", value |-> ret[t]])
    /\ UNCHANGED fetched

\* get_auction_listings, lines 143-147.
CallGetAuctionListings(t) ==
    /\ CanCall(t)
    /\ \E g \in RealmSlugs, cutoff \in 0..MaxTime :
         /\ StartOperation(t, "get_auction_listings", [realm_slug |-> g, cutoff |-> cutoff])
         /\ EnterExecutor(t, <<>>, AuctionDataUrl(g), "auction_data")

\* Mutant of FreshnessGate: the boundary lastModified = cutoff lets through.
FreshnessGateStrict(T, cutoff) == T < cutoff

\* auction_data_pointer.lastModified <= cutoff (line 149): skip the listings.
FreshnessGate(T, cutoff) == T <= cutoff

\* auction_data_reply.files.pop() (line 148): the last element.
Pop(files) == files[Len(files)]

\* Lines 148-153: pop the pointer (unwrap panics on no files), return None
\* when it is not newer than the cutoff, else fetch the listings it names.
GetAuctionPointer(t) ==
    /\ pc[t] = "ret" /\ op[t] = "get_auction_listings" /\ Len(calls[t]) = 1
    /\ IF ret[t].files = <<>>
       THEN /\ Finish(t, [kind |-> "panic", message |-> "unwrap on None"])
            /\ UNCHANGED fetched
       ELSE LET auction_data_pointer == Pop(ret[t].files)
            IN  /\ fetched' = [fetched EXCEPT ![t] = auction_data_pointer]
                /\ IF FreshnessGate(auction_data_pointer.lastModified, arg[t].cutoff)
                   THEN Finish(t, [kind |-> "value", value |-> [some |-> FALSE]])
                   ELSE /\ EnterExecutor(t, calls[t], auction_data_pointer.url,
                                         "auction_listings")
                        /\ UNCHANGED <<cluster_vars, live, limiter_vars, healthy,
                                       overflow_checks, op, arg, ret, outcome,
                                       acq_urls, sent_urls>>

\* Mutant of GetAuctionListingsReturn: the cutoff returned as the time.
GetAuctionListingsReturnCutoff(t) ==
    /\ pc[t] = "ret" /\ op[t] = "get_auction_listings" /\ Len(calls[t]) = 2
    /\ Finish(t, [kind |-> "value",
                  value |-> [some |-> TRUE, lastModified |-> arg[t].cutoff,
                             listings |-> ret[t].auctions]])
    /\ UNCHANGED fetched

\* Line 154: Some((lastModified, auctions)).
GetAuctionListingsReturn(t) ==
    /\ pc[t] = "ret" /\ op[t] = "get_auction_listings" /\ Len(calls[t]) = 2
    /\ Finish(t, [kind |-> "value",
                  value |-> [some |-> TRUE, lastModified |-> fetched[t].lastModified,
                             listings |-> ret[t].auctions]])
    /\ UNCHANGED fetched

(***************************************************************************)
(* Specifications.                                                         *)
(***************************************************************************)
\* BattleNetApiClient::new (lines 70-76): an empty limiter, no call running.
ClientNew(threads, builds) ==
    /\ live = threads
    /\ tt = [a \in Ages |-> 0]
    /\ sent_win = [a \in Ages |-> 0]
    /\ healthy = FALSE
    /\ overflow_checks \in builds
    /\ op = [t \in Threads |-> "none"]
    /\ arg = [t \in Threads |-> [none |-> TRUE]]
    /\ pc = [t \in Threads |-> "idle"]
    /\ calls = [t \in Threads |-> <<>>]
    /\ shape = [t \in Threads |-> "none"]
    /\ s = [t \in Threads |-> <<>>]
    /\ retries = [t \in Threads |-> 0]
    /\ ret = [t \in Threads |-> [none |-> TRUE]]
    /\ fetched = [t \in Threads |-> [none |-> TRUE]]
    /\ outcome = [t \in Threads |-> [kind |-> "none"]]
    /\ acq_urls = [t \in Threads |-> {}]
    /\ sent_urls = [t \in Threads |-> {}]
    /\ permits = [t \in Threads |-> 0]
    /\ dispatched = [t \in Threads |-> 0]
    /\ nfail = [t \in Threads |-> 0]
    /\ last_log = [t \in Threads |-> 0]

ClusterIdle ==
    /\ realm_infos = <<>>
    /\ clustered = [state |-> "pending", groups |-> <<>>]

\* process_connected_realms applied to any argument within the bounds; the
\* client is not used.
ClusterInit ==
    /\ realm_infos \in SeqsUpTo(RealmInfo, MaxRealms)
    /\ clustered = [state |-> "pending", groups |-> <<>>]
    /\ ClientNew({}, {FALSE})

ProcessConnectedRealms ==
    /\ clustered.state = "pending"
    /\ clustered' = process_connected_realms(realm_infos)
    /\ UNCHANGED <<realm_infos, client_vars>>

ClusterNext == ProcessConnectedRealms

ClusterSpec == ClusterInit /\ [][ClusterNext]_vars

\* One caller, all three fetching operations, and the clock.
Init == ClusterIdle /\ ClientNew({1}, BOOLEAN)

Next ==
    \/ \E t \in live :
         \/ CallGetRealms(t)
         \/ GetRealmsReturn(t)
         \/ CallGetItemInfo(t)
         \/ GetItemInfoReturn(t)
         \/ CallGetAuctionListings(t)
         \/ GetAuctionPointer(t)
         \/ GetAuctionListingsReturn(t)
         \/ IncrementRetries(t)
         \/ Acquire(t)
         \/ Send(t)
         \/ Receive(t)
         \/ ReadBody(t)
    \/ Tick

Spec == Init /\ [][Next]_vars

\* The environment turns healthy: from here on every attempt gets a
\* successful transport, a success status, a readable body and a payload
\* valid for the expected shape.
GoHealthy ==
    /\ live # {}
    /\ ~healthy
    /\ healthy' = TRUE
    /\ UNCHANGED <<cluster_vars, live, limiter_vars, overflow_checks, thread_vars, history_vars>>

\* The single caller in a build without overflow checks, in which a call
\* ends in no other way than by returning.
LiveInit == ClusterIdle /\ ClientNew({1}, {FALSE})

\* The caller fetches items; at some moment the environment may turn
\* healthy.
LiveNext ==
    \/ \E t \in live :
         \/ CallGetItemInfo(t)
         \/ GetItemInfoReturn(t)
         \/ IncrementRetries(t)
         \/ Acquire(t)
         \/ Send(t)
         \/ Receive(t)
         \/ ReadBody(t)
    \/ Tick
    \/ GoHealthy

\* A running thread keeps running and the clock keeps ticking: the limiter
\* lets every acquire through in the end, and every request sent gets some
\* response or error.
Fairness ==
    /\ WF_vars(Tick)
    /\ \A t \in Threads :
          /\ WF_vars(IncrementRetries(t)) /\ WF_vars(Acquire(t)) /\ WF_vars(Send(t))
          /\ WF_vars(Receive(t)) /\ WF_vars(ReadBody(t))

LiveSpec == LiveInit /\ [][LiveNext]_vars /\ Fairness

\* The single caller of Spec, kept running in the same way, in an
\* environment that stays as it is.
FairSpec == Init /\ [][Next]_vars /\ Fairness

\* Several threads share the client and its limiter, each fetching items;
\* the clock may tick at any moment.  The build is the one with overflow
\* checks (cargo's default profile), in which a call makes at most
\* MaxRetries attempts.
ConcInit == ClusterIdle /\ ClientNew(Threads, {TRUE})

ConcNext ==
    \/ \E t \in live :
         \/ CallGetItemInfo(t)
         \/ GetItemInfoReturn(t)
         \/ IncrementRetries(t)
         \/ Acquire(t)
         \/ Send(t)
         \/ Receive(t)
         \/ ReadBody(t)
    \/ Tick

ConcSpec == ConcInit /\ [][ConcNext]_vars

(***************************************************************************)
(* Claims about the executor and the fetching operations.                  *)
(***************************************************************************)
InExecutor(t) == pc[t] \in {"loop", "acquire", "send", "wait", "read"}
Returned_(t)  == outcome[t].kind = "value"
IsAuction(t)  == op[t] = "get_auction_listings"
HasPointer(t) == "lastModified" \in DOMAIN fetched[t]

\* C1: once every later attempt gets a successful transport, a success
\* status, a readable body and a valid payload, a running executor call
\* eventually returns the decoded value of such a payload, whatever failed
\* before.  (Checked under LiveSpec.)
C1_EventuallyReturns ==
    \A t \in Threads :
        (healthy /\ InExecutor(t)) ~>
            (pc[t] = "ret" /\ \E d \in Docs(Url(t)) : ret[t] = ValueOf(d))

\* C2: the caller of get_realms, get_item_info or get_auction_listings
\* sees a returned value or nothing at all (the call blocks): no failure,
\* error or abort reaches it, whatever the responses.
C2_NoFailureReachesCaller ==
    \A t \in Threads : outcome[t].kind \in {"none", "value"}

\* C3: get_auction_listings returns None exactly when the lastModified of
\* the fetched pointer is at most the cutoff.
C3_NoneIffNotNewer ==
    \A t \in Threads :
        (IsAuction(t) /\ Returned_(t)) =>
            /\ HasPointer(t)
            /\ (~outcome[t].value.some) <=> (fetched[t].lastModified <= arg[t].cutoff)

\* The boundary: lastModified equal to the cutoff, None returned.
C3_Witness ==
    \E t \in Threads :
        /\ IsAuction(t) /\ Returned_(t) /\ ~outcome[t].value.some
        /\ fetched[t].lastModified = arg[t].cutoff

\* C4: when the pointer is newer than the cutoff, the value returned is
\* Some((T, L)) with T the pointer's lastModified and L the auctions of a
\* listings document held at the pointer's URL, elements and order kept.
C4_SomeCarriesTimeAndListings ==
    \A t \in Threads :
        (IsAuction(t) /\ Returned_(t) /\ HasPointer(t)
            /\ fetched[t].lastModified > arg[t].cutoff) =>
            /\ outcome[t].value.some
            /\ outcome[t].value.lastModified = fetched[t].lastModified
            /\ outcome[t].value.lastModified > arg[t].cutoff
            /\ fetched[t].url \in sent_urls[t]
            /\ \E d \in ListingsDocs(fetched[t].url) :
                 outcome[t].value.listings = d.auctions

\* Some((cutoff + 1, [Listing1, Listing2])) returned from the first file.
C4_Witness ==
    \E t \in Threads :
        /\ IsAuction(t) /\ Returned_(t) /\ outcome[t].value.some
        /\ outcome[t].value.lastModified = arg[t].cutoff + 1
        /\ outcome[t].value.listings = <<Listing1, Listing2>>

\* C5: the listings URL is requested only after the pointer fetch returned
\* and only when the pointer is newer than the cutoff.  On skip the
\* executor ran once, and neither a permit nor a request went to the
\* pointer's URL; on proceed it ran exactly once more, on the pointer's URL.
C5_ListingsFetchedOnlyWhenNewer ==
    \A t \in Threads :
        IsAuction(t) =>
            /\ Len(calls[t]) <= 2
            /\ calls[t][1] = AuctionDataUrl(arg[t].realm_slug)
            /\ sent_urls[t] \subseteq acq_urls[t]
            /\ acq_urls[t] \subseteq Range(calls[t])
            /\ Len(calls[t]) = 2 =>
                 /\ HasPointer(t)
                 /\ fetched[t].lastModified > arg[t].cutoff
                 /\ calls[t][2] = fetched[t].url
            /\ (Returned_(t) /\ ~outcome[t].value.some) =>
                 /\ calls[t] = <<AuctionDataUrl(arg[t].realm_slug)>>
                 /\ fetched[t].url \notin acq_urls[t]
                 /\ fetched[t].url \notin sent_urls[t]
            /\ (Returned_(t) /\ outcome[t].value.some) =>
                 calls[t] = <<AuctionDataUrl(arg[t].realm_slug), fetched[t].url>>

\* The gate said skip at the boundary: one executor call, and requests
\* to the status URL only.
C5_Witness ==
    \E t \in Threads :
        /\ IsAuction(t) /\ Returned_(t) /\ ~outcome[t].value.some
        /\ fetched[t].lastModified = arg[t].cutoff
        /\ Len(calls[t]) = 1
        /\ sent_urls[t] = {AuctionDataUrl(arg[t].realm_slug)}

\* C6 as stated: within any window, at most Capacity acquisitions and
\* therefore at most Capacity request dispatches.  (Checked under ConcSpec.)
C6_AtMostCapacityPerWindow ==
    /\ InWindow(tt) <= Capacity
    /\ InWindow(sent_win) <= Capacity

\* C6 as amended: within any window at most Capacity acquisitions; every
\* dispatch follows an acquisition of its own, possibly later, so a window
\* holds at most Capacity dispatches plus one per calling thread.
C6_AcquisitionsBounded ==
    /\ InWindow(tt) <= Capacity
    /\ \A t \in Threads : dispatched[t] <= permits[t]
    /\ InWindow(sent_win) <= Capacity + Cardinality(live)

\* The limiter is full while both threads hold or have used a permit and
\* one of them is blocked in it, waiting for room.
C6_Witness ==
    /\ InWindow(tt) = Capacity
    /\ \A t \in Threads : permits[t] >= 1
    /\ \E t \in Threads : pc[t] = "acquire" /\ ~HasRoom(tt)

\* C11: within one executor call every request dispatch is preceded by a
\* rate-limiter acquisition of its own.  Whatever failed, the next attempt
\* starts at the acquisition: between an acquisition and its dispatch the
\* call holds one permit more than it has dispatched requests, at every
\* other point as many; a request on the wire is one more than the
\* failures logged, and at every other point as many requests have been
\* dispatched as have failed.  (The counts are exact up to MaxCount.)
C11_DispatchFollowsOwnPermit ==
    \A t \in Threads :
        /\ pc[t] = "send" => permits[t] = Bump(dispatched[t])
        /\ pc[t] # "send" => permits[t] = dispatched[t]
        /\ pc[t] \in {"wait", "read"} => dispatched[t] = Bump(nfail[t])
        /\ pc[t] \in {"loop", "acquire", "send"} => dispatched[t] = nfail[t]

\* After a first attempt that failed with a body read into `s`, the call
\* has acquired a second permit and not yet dispatched its second request.
C11_Witness ==
    \E t \in Threads :
        /\ pc[t] = "send" /\ s[t] # <<>>
        /\ nfail[t] = 1 /\ dispatched[t] = 1 /\ permits[t] = 2

\* C12: an executor call whose attempts all fail never returns and never
\* stops retrying, at any attempt count.  The call leaves the loop only by
\* returning the value decoded from a payload, and a call that does not
\* leave it keeps making attempts (the limiter lets each acquisition
\* through in the end): again and again a failure is logged, and again and
\* again a request is on the wire.  (Checked under FairSpec.)
C12_RetriesForever ==
    /\ [][\A t \in Threads :
            (InExecutor(t) /\ pc'[t] \notin {"loop", "acquire", "send", "wait", "read"})
                => (pc'[t] = "ret" /\ \E d \in Docs(Url(t)) : ret'[t] = ValueOf(d))]_vars
    /\ \A t \in Threads :
          \/ []<>(~InExecutor(t))
          \/ /\ []<>(pc[t] = "loop" /\ nfail[t] = MaxCount)
             /\ []<>(pc[t] = "wait" /\ dispatched[t] = MaxCount)

\* C13: on every attempt of an executor call the text that is sanitized
\* and handed to the decoder is exactly the body read from that attempt's
\* response: whatever body the attempt in progress reads, the text is what
\* reading that body into an empty string gives, so nothing read during an
\* earlier failed attempt of the call is part of it.
C13_DecoderGetsThisBodyOnly ==
    \A t \in Threads :
        pc[t] = "read" =>
            \A body \in Bodies(Url(t)) :
                Sanitize(ReadToString(s[t], body)) = Sanitize(ReadToString(<<>>, body))

\* C14: the retry counter is local to one executor call.  It is 0 when the
\* call starts and outside any call, it is incremented once per attempt
\* before the permit is acquired (so at the top of the loop it equals the
\* failures of the call, and from there on the failures plus the attempt
\* in progress), and the count logged with the k-th failure of a call is
\* k, whatever the failures were and whatever other calls on the client
\* did.  (Checked under Spec, which has both builds.)
C14_RetryCounterLocalToCall ==
    \A t \in Threads :
        /\ ~InExecutor(t) => retries[t] = 0
        /\ pc[t] = "loop" => retries[t] = nfail[t]
        /\ pc[t] \in {"acquire", "send", "wait", "read"} => retries[t] = nfail[t] + 1
        /\ last_log[t] = nfail[t]

\* C15: every group of the output of process_connected_realms is the
\* connected_realms sequence of some input realm, unchanged; the output has
\* at most as many groups as the input has realms; and the groups are in
\* non-decreasing order of their first slug.
C15_GroupsAreInputsInOrder ==
    Returned =>
        /\ \A j \in 1..Len(Groups) :
              \E i \in 1..Len(realm_infos) : Groups[j] = realm_infos[i].connected_realms
        /\ Len(Groups) <= Len(realm_infos)
        /\ \A j \in 1..Len(Groups) : \A k \in 1..Len(Groups) :
              j < k => SlugRank(Groups[j][1]) <= SlugRank(Groups[k][1])

\* [b,a], [a,b], [b,a] in: the sort moves [a,b] to the front, one of the
\* two adjacent [b,a] is dropped, and [b,a] comes out as it went in.
C15_Witness ==
    /\ Returned
    /\ Candidates = << <<"b", "a">>, <<"a", "b">>, <<"b", "a">> >>
    /\ Groups = << <<"a", "b">>, <<"b", "a">> >>

====
